---- MODULE Spec2Model ----
(***************************************************************************)
(* Voice-bot-pro: the completion endpoint (response cache, rate limiter,   *)
(* upstream deadline) and the browser-side pipeline coordinator (recorder, *)
(* transcription worker, retrying completion call, speech output).         *)
(*                                                                         *)
(* Strings are sequences of one-character strings, so that toLowerCase()   *)
(* and trim() are computed and not assumed.  Times are milliseconds.       *)
(* Sample amplitudes are integers in units of 0.001.                       *)
(***************************************************************************)
EXTENDS Integers, Sequences, FiniteSets, TLC

VARIABLES
    \* ---- server: src/unnamed/part_000 and src/src/app/api/chat/route.ts
    variant,        \* which copy of the POST handler is deployed
    apiKey,         \* process.env.GEMINI_API_KEY is set
    now,            \* Date.now() on the server
    responseCache,  \* Map key -> {content, timestamp}
    rateLimitMap,   \* Map ip -> {count, timestamp}
    reqs,           \* the POST invocations in flight, by slot
    lastDone,       \* the response most recently sent (history)
    seen,           \* per ip: the requests received and let through in its 60 s window (history)
    ev,             \* label of the last server step (history)
    posts,          \* number of POSTs received (bounds the run)
    \* ---- browser: src/src/app/page.tsx, Home
    isRecording, isProcessing, error, whisperStatus, ttsStatus, transcript, response,
    retryCount,
    latencyTotal,   \* latency.total is set
    performanceHistory,
    calls,          \* the handleTranscriptComplete invocations in progress
    starts,         \* number of Home.startRecording calls made (bounds the run)
    stopCalls,      \* number of Home.stopRecording calls made while not recording (history)
    stopped,        \* AudioRecorder.stopRecording called, and startRecording not since (history)
    voiceSettings,  \* Home's voiceSettings state
    handlerSettings, \* the voiceSettings captured by the registered worker.onmessage handler
    clock,          \* Date.now() in the browser
    sttStartTime,   \* sttStartTime.current
    latencyStt,     \* latency.stt, -1 when not set
    stopTime,       \* Date.now() at the last Home.stopRecording that stopped a recording (history)
    \* ---- browser: AudioRecorder
    audioStream,    \* this.audioStream holds a live MediaStream
    audioContext,   \* this.audioContext holds an open AudioContext
    processor,      \* this.processor holds a connected ScriptProcessorNode
    recorderIsRecording,
    audioChunks,
    pendingStarts,  \* startRecording calls awaiting getUserMedia
    leaked,         \* live streams the recorder no longer refers to
    strayGraph,     \* a processor built by an earlier startRecording is still connected
                    \* and this.processor no longer refers to it
    sessionChunks,  \* the blocks this.processor has appended since startRecording
                    \* built it (history)
    heard,          \* the blocks of the recording: "none", "quiet" (all below the
                    \* threshold) or "loud" (one at or above it) (history)
    \* ---- browser: TextToSpeech and the 1000 ms status timer
    ttsIsInitialized, ttsTimerFired,
    \* ---- src/src/workers/whisperWorker.ts and the two message channels
    workerIsInitialized, workerLoads, inbox, outbox,
    pipelineLoads,     \* number of pipeline() calls the worker has made (history)
    transcriberCalls,  \* number of times the worker has invoked the transcriber (history)
    posted             \* number of messages posted to the worker (bounds the run)

srvVars == <<variant, apiKey, now, responseCache, rateLimitMap, reqs, lastDone,
             seen, ev, posts>>

statVars == <<retryCount, latencyTotal, performanceHistory>>

homeVars == <<isRecording, isProcessing, error, whisperStatus, ttsStatus, transcript,
              response, statVars>>

recVars == <<audioStream, audioContext, processor, recorderIsRecording, audioChunks,
             pendingStarts, leaked, heard>>

ttsVars == <<ttsIsInitialized, ttsTimerFired>>

workerVars == <<workerIsInitialized, workerLoads, pipelineLoads, transcriberCalls, posted>>

clickVars == <<starts, stopCalls, stopped>>
settingsVars == <<voiceSettings, handlerSettings>>
timeVars == <<clock, sttStartTime, latencyStt, stopTime>>
graphVars == <<strayGraph, sessionChunks>>
cliVars == <<homeVars, calls, clickVars, settingsVars, timeVars, graphVars, recVars, ttsVars, workerVars, inbox, outbox>>

vars == <<srvVars, cliVars>>

(***************************************************************************)
(* Program constants                                                       *)
(***************************************************************************)
CACHE_DURATION == 300000
RATE_LIMIT_WINDOW == 60000
RATE_LIMIT_MAX == 30
UPSTREAM_TIMEOUT == 8000

(***************************************************************************)
(* Bounds of the model                                                     *)
(***************************************************************************)
MaxInflight == 2
MaxPostsCache == 3
MaxPostsRate == 32
MaxPostsOther == 1

(***************************************************************************)
(* String.prototype.toLowerCase and String.prototype.trim                  *)
(***************************************************************************)
LowerChar(c) ==
    CASE c = "H" -> "h"
      [] c = "I" -> "i"
      [] OTHER -> c

ToLowerCase(s) == [i \in 1..Len(s) |-> LowerChar(s[i])]

IsSpace(c) == c = " "

RECURSIVE TrimStart(_)
TrimStart(s) ==
    IF s = <<>> THEN s
    ELSE IF IsSpace(Head(s)) THEN TrimStart(Tail(s)) ELSE s

RECURSIVE TrimEnd(_)
TrimEnd(s) ==
    IF s = <<>> THEN s
    ELSE IF IsSpace(s[Len(s)]) THEN TrimEnd(SubSeq(s, 1, Len(s) - 1)) ELSE s

Trim(s) == TrimEnd(TrimStart(s))

(***************************************************************************)
(* Inputs                                                                  *)
(***************************************************************************)
Hi == <<"H", "i">>
HiPadded == <<" ", "H", "i", " ">>
hSpaceI == <<"h", " ", "i">>

Messages == {Hi, HiPadded, hSpaceI}

Languages == {"en", "hi"}

\* x-forwarded-for header values; "" stands for an absent header
Headers == {"", "10.0.0.1"}

\* the enableCaching member of the JSON body: absent, true or false
CachingFlags == {"absent", "true", "false"}

NoBody == [ok |-> FALSE, message |-> <<>>, enableCaching |-> "absent", language |-> "en"]

\* request bodies: well-formed ones, and one that request.json() cannot parse
Bodies ==
    [ok : {TRUE}, message : Messages, enableCaching : CachingFlags, language : Languages]
    \cup {NoBody}

FallbackText == <<"I couldn't generate a response.">>

\* candidates[0].content.parts[0].text of a successful upstream answer
UpstreamTexts == {<<" ", "o", "k", " ">>, <<" ">>}

\* how the upstream fetch settles; hasText FALSE with kind "ok": no candidate text
Outcomes ==
    [kind : {"ok"}, hasText : {TRUE}, text : UpstreamTexts]
    \cup {[kind |-> k, hasText |-> FALSE, text |-> <<>>] :
            k \in {"ok", "status", "neterr", "badjson", "abort"}}

Slots == 1..MaxInflight

(***************************************************************************)
(* The handler's pure parts                                                *)
(***************************************************************************)
\* const { message, enableCaching = true, language = 'en' } = await request.json()
EnableCachingOf_Always(body) == TRUE
EnableCachingOf(body) == body.enableCaching # "false"

\* request.headers.get('x-forwarded-for') || 'unknown'
ClientIp(header) == IF header = "" THEN "unknown" ELSE header

\* part_000: message.toLowerCase().trim()
CacheKey_NoTrim(message) == ToLowerCase(message)
CacheKey(message) == Trim(ToLowerCase(message))

\* route.ts: `${language}-${message.toLowerCase().trim()}`
CacheKeyLocale(language, message) == <<language, "-">> \o Trim(ToLowerCase(message))

KeyOf(body) ==
    IF variant = "locale" THEN CacheKeyLocale(body.language, body.message)
    ELSE CacheKey(body.message)

\* Date.now() - cached.timestamp < CACHE_DURATION
CacheFresh_Inverted(timestamp, t) == t - timestamp >= CACHE_DURATION
CacheFresh(timestamp, t) == t - timestamp < CACHE_DURATION

\* cached && Date.now() - cached.timestamp < CACHE_DURATION
CacheHit_NoExpiry(cache, key, t) == key \in DOMAIN cache
CacheHit(cache, key, t) == key \in DOMAIN cache /\ CacheFresh(cache[key].timestamp, t)

\* now - userLimit.timestamp > RATE_LIMIT_WINDOW
WindowExpired(timestamp, t) == t - timestamp > RATE_LIMIT_WINDOW

\* userLimit.count >= RATE_LIMIT_MAX
AtCeiling_OffByOne(count) == count > RATE_LIMIT_MAX
AtCeiling(count) == count >= RATE_LIMIT_MAX

\* !userLimit || now - userLimit.timestamp > RATE_LIMIT_WINDOW
StartsWindow(map, ip, t) == ip \notin DOMAIN map \/ WindowExpired(map[ip].timestamp, t)

\* the value checkRateLimit returns
RateLimitAllows(map, ip, t) == StartsWindow(map, ip, t) \/ ~AtCeiling(map[ip].count)

\* the map checkRateLimit leaves behind
RateLimitUpdate(map, ip, t) ==
    IF StartsWindow(map, ip, t)
    THEN [i \in DOMAIN map \cup {ip} |->
            IF i = ip THEN [count |-> 1, timestamp |-> t] ELSE map[i]]
    ELSE IF AtCeiling(map[ip].count) THEN map
    ELSE [map EXCEPT ![ip].count = @ + 1]

\* data.candidates?.[0]?.content?.parts?.[0]?.text || "I couldn't generate a response."
ExtractContent(o) == IF o.hasText /\ o.text # <<>> THEN o.text ELSE FallbackText

\* responseCache.set(cacheKey, {content, timestamp})
CacheSet(cache, key, content, t) ==
    [k \in DOMAIN cache \cup {key} |->
        IF k = key THEN [content |-> content, timestamp |-> t] ELSE cache[k]]

(***************************************************************************)
(* Records of the model                                                    *)
(***************************************************************************)
\* a response as sent, with the request it answers.  History members:
\* `fetched` (an upstream fetch was issued for it), `follows`, `predContent`
\* (see Follows) and `entry` (see EntryAge)
NoResponse ==
    [valid |-> FALSE, ip |-> "", body |-> NoBody, status |-> 0, via |-> "none",
     content |-> <<>>, err |-> "", fetched |-> FALSE, follows |-> "no",
     predContent |-> <<>>, entry |-> "none"]

Response(r, status, via, content, err, entry) ==
    [valid |-> TRUE, ip |-> r.ip, body |-> r.body, status |-> status, via |-> via,
     content |-> content, err |-> err, fetched |-> r.pc = "fetch", follows |-> r.follows,
     predContent |-> r.predContent, entry |-> entry]

FreeSlot ==
    [pc |-> "free", ip |-> "", body |-> NoBody, follows |-> "no", predContent |-> <<>>,
     entry |-> "none", fetchStart |-> 0]

\* the slot a new invocation takes: the lowest free one
FreeSlotOf(rs) == CHOOSE s \in Slots : rs[s].pc = "free" /\ \A o \in 1..(s - 1) : rs[o].pc # "free"

\* history: lower-cased and trimmed, computed apart from the handler's key
Normalised(message) == Trim(ToLowerCase(message))

\* history: how this request relates to `d`, the response sent last.  "same":
\* d is a 200 obtained from upstream with caching on, this request has caching
\* on and the same message and language, and no other request is in flight;
\* "norm": likewise, the messages differing but equal once normalised.
Follows(rs, d, body) ==
    IF /\ d.valid /\ d.status = 200 /\ d.via = "upstream" /\ EnableCachingOf(d.body)
       /\ body.ok /\ EnableCachingOf(body)
       /\ body.language = d.body.language
       /\ Normalised(body.message) = Normalised(d.body.message)
       /\ \A o \in Slots : rs[o].pc = "free"
    THEN IF body.message = d.body.message THEN "same" ELSE "norm"
    ELSE "no"

\* history: the age, against the 300000 ms time-to-live, of the cache entry
\* under `key` at time t: "none", "under", "exact" or "over"
EntryAge(cache, key, t) ==
    IF key \notin DOMAIN cache THEN "none"
    ELSE IF t - cache[key].timestamp < 300000 THEN "under"
    ELSE IF t - cache[key].timestamp = 300000 THEN "exact"
    ELSE "over"

\* history, kept apart from the limiter's own map: per ip the start of its
\* window (opened by the first request after more than 60000 ms), the number
\* of requests received in it and the number of those the gate let through
Observe(h, ip, t, allowed) ==
    LET opens == ip \notin DOMAIN h \/ t - h[ip].start > 60000
        old == IF opens THEN [start |-> t, n |-> 0, passed |-> 0] ELSE h[ip]
        new == [start |-> old.start, n |-> old.n + 1,
                passed |-> old.passed + (IF allowed THEN 1 ELSE 0)]
    IN  [i \in DOMAIN h \cup {ip} |-> IF i = ip THEN new ELSE h[i]]

(***************************************************************************)
(* POST, first step: the rate-limit gate, up to `await request.json()`     *)
(***************************************************************************)
\* if (!checkRateLimit(ip)) return 429 -- route.ts has no such gate
GateOpen_Always(map, ip, t) == TRUE
GateOpen_UnlessCached(map, ip, t) ==
    \/ variant # "limited"
    \/ RateLimitAllows(map, ip, t)
    \/ \E k \in DOMAIN responseCache : CacheFresh(responseCache[k].timestamp, t)
GateOpen(map, ip, t) == variant # "limited" \/ RateLimitAllows(map, ip, t)

POST_Begin(header, body) ==
    LET ip == ClientIp(header)
        limited == variant = "limited"
        allowed == GateOpen(rateLimitMap, ip, now)
        s == FreeSlotOf(reqs)
        follows == Follows(reqs, lastDone, body)
        r == [pc |-> "body", ip |-> ip, body |-> body, follows |-> follows,
              predContent |-> IF follows # "no" THEN lastDone.content ELSE <<>>,
              entry |-> "none", fetchStart |-> 0]
    IN  /\ \E f \in Slots : reqs[f].pc = "free"
        /\ posts' = posts + 1
        /\ rateLimitMap' = IF limited THEN RateLimitUpdate(rateLimitMap, ip, now)
                           ELSE rateLimitMap
        /\ seen' = IF limited THEN Observe(seen, ip, now, allowed) ELSE seen
        /\ IF allowed
           THEN /\ reqs' = [reqs EXCEPT ![s] = r]
                /\ UNCHANGED lastDone
           ELSE /\ lastDone' = Response(r, 429, "ratelimit", <<>>, "Rate limit exceeded",
                                        IF body.ok
                                        THEN EntryAge(responseCache, KeyOf(body), now)
                                        ELSE "none")
                /\ UNCHANGED reqs
        /\ ev' = IF allowed THEN "begin" ELSE "reject"
        /\ UNCHANGED <<variant, apiKey, now, responseCache, cliVars>>

(***************************************************************************)
(* POST, second step: body parsed, key check, cache lookup, fetch issued   *)
(***************************************************************************)
POST_Lookup(s) ==
    LET r == reqs[s]
        key == KeyOf(r.body)
        entry == IF r.body.ok THEN EntryAge(responseCache, key, now) ELSE "none"
    IN  /\ r.pc = "body"
        /\ ev' = "lookup"
        /\ IF ~r.body.ok
           THEN /\ lastDone' = Response(r, 500, "error", <<>>, "Unexpected token", entry)
                /\ reqs' = [reqs EXCEPT ![s] = FreeSlot]
           ELSE IF ~apiKey
           THEN /\ lastDone' = Response(r, 500, "error", <<>>, "API key", entry)
                /\ reqs' = [reqs EXCEPT ![s] = FreeSlot]
           ELSE IF EnableCachingOf(r.body) /\ CacheHit(responseCache, key, now)
           THEN /\ lastDone' = Response(r, 200, "cache", responseCache[key].content, "", entry)
                /\ reqs' = [reqs EXCEPT ![s] = FreeSlot]
           ELSE /\ reqs' = [reqs EXCEPT ![s].pc = "fetch", ![s].fetchStart = now,
                                        ![s].entry = entry]
                /\ UNCHANGED lastDone
        /\ UNCHANGED <<variant, apiKey, now, responseCache, rateLimitMap, seen, posts,
                       cliVars>>

(***************************************************************************)
(* POST, last step: the upstream fetch settles                             *)
(***************************************************************************)
\* setTimeout(() => controller.abort(), 8000) -- route.ts sets no timer.
\* The timer can have fired; the answer can have come before it fired.
DeadlineFired(start, t) == variant = "limited" /\ t - start >= UPSTREAM_TIMEOUT
AnsweredFirst_NoDeadline(start, t) == TRUE
AnsweredFirst(start, t) == variant = "limited" => t - start <= UPSTREAM_TIMEOUT

\* if (enableCaching) responseCache.set(...), reached only when the fetch
\* resolved with response.ok and response.json() parsed the body; a missing
\* candidate text has been replaced by the fallback by then
StoresReply_AnyOutcome(o, body) == EnableCachingOf(body)
StoresReply_OnlyCandidateText(o, body) == o.kind = "ok" /\ o.hasText /\ EnableCachingOf(body)
StoresReply(o, body) == o.kind = "ok" /\ EnableCachingOf(body)

POST_Return(s, o) ==
    LET r == reqs[s]
        key == KeyOf(r.body)
        trimmedContent == Trim(ExtractContent(o))
    IN  /\ r.pc = "fetch"
        /\ IF o.kind = "abort" THEN DeadlineFired(r.fetchStart, now)
                               ELSE AnsweredFirst(r.fetchStart, now)
        /\ ev' = "return"
        /\ reqs' = [reqs EXCEPT ![s] = FreeSlot]
        /\ responseCache' = IF StoresReply(o, r.body)
                             THEN CacheSet(responseCache, key, trimmedContent, now)
                             ELSE responseCache
        /\ lastDone' = IF o.kind = "ok"
                        THEN Response(r, 200, "upstream", trimmedContent, "", r.entry)
                        ELSE Response(r, 500, "error", <<>>,
                                CASE o.kind = "status" -> "Gemini API error"
                                  [] o.kind = "abort" -> "Request timeout"
                                  [] o.kind = "badjson" -> "Unexpected end of JSON input"
                                  [] OTHER -> "fetch failed", r.entry)
        /\ UNCHANGED <<variant, apiKey, now, rateLimitMap, seen, posts, cliVars>>

(***************************************************************************)
(* The server clock                                                        *)
(***************************************************************************)
Tick(t) ==
    /\ t > now
    /\ now' = t
    /\ ev' = "tick"
    /\ UNCHANGED <<variant, apiKey, responseCache, rateLimitMap, reqs, lastDone,
                   seen, posts, cliVars>>

(***************************************************************************)
(* Initial state: the module-level Maps are empty                          *)
(***************************************************************************)
InitServer ==
    /\ variant \in {"limited", "locale"}
    /\ apiKey \in BOOLEAN
    /\ now = 0
    /\ responseCache = <<>>
    /\ rateLimitMap = <<>>
    /\ reqs = [s \in Slots |-> FreeSlot]
    /\ lastDone = NoResponse
    /\ seen = <<>>
    /\ ev = "init"
    /\ posts = 0

\* useState<VoiceSettings>: ttsRate in tenths, ttsVolume in tenths
DefaultSettings == [enableCaching |-> TRUE, ttsRate |-> 12, ttsVolume |-> 8]

\* what the settings panel can set, one field at a time
SettingsValues ==
    {DefaultSettings,
     [enableCaching |-> FALSE, ttsRate |-> 12, ttsVolume |-> 8],
     [enableCaching |-> TRUE, ttsRate |-> 20, ttsVolume |-> 8],
     [enableCaching |-> TRUE, ttsRate |-> 12, ttsVolume |-> 5]}

\* the page as mounted: the effect of Home has created the worker and posted
\* `init` to it, and armed the 1000 ms timer that sets ttsStatus
InitClient ==
    /\ isRecording = FALSE
    /\ isProcessing = FALSE
    /\ error = ""
    /\ whisperStatus = "Initializing..."
    /\ ttsStatus = "Initializing..."
    /\ transcript = <<>>
    /\ response = <<>>
    /\ retryCount = 0
    /\ latencyTotal = FALSE
    /\ performanceHistory = <<>>
    /\ calls = <<>>
    /\ starts = 0
    /\ stopCalls = 0
    /\ stopped = FALSE
    /\ voiceSettings = DefaultSettings
    /\ handlerSettings = voiceSettings
    /\ clock = 0
    /\ sttStartTime = 0
    /\ strayGraph = FALSE
    /\ sessionChunks = <<>>
    /\ latencyStt = -1
    /\ stopTime = 0
    /\ audioStream = FALSE
    /\ audioContext = FALSE
    /\ processor = FALSE
    /\ recorderIsRecording = FALSE
    /\ audioChunks = <<>>
    /\ pendingStarts = 0
    /\ leaked = 0
    /\ heard = "none"
    /\ ttsIsInitialized = FALSE
    /\ ttsTimerFired = FALSE
    /\ workerIsInitialized = FALSE
    /\ workerLoads = 0
    /\ pipelineLoads = 0
    /\ transcriberCalls = 0
    /\ posted = 1
    /\ inbox = <<[type |-> "init", audioData |-> <<>>]>>
    /\ outbox = <<>>

Init == InitServer /\ InitClient

(***************************************************************************)
(* The cache scenarios: few requests, one after the other, every body and *)
(* upstream outcome, a clock that steps around the time-to-live            *)
(***************************************************************************)
CacheInstants == {299999, 300000, 300001}

\* the language member is read by route.ts only
BodiesFor(v) ==
    {b \in Bodies : /\ b.enableCaching # "true" => b.message = Hi
                    /\ b.language = "hi" => v = "locale" /\ b.message = Hi
                                                /\ b.enableCaching = "true"}

NextCache ==
    \/ \E b \in BodiesFor(variant) :
          /\ posts < MaxPostsCache
          /\ \A s \in Slots : reqs[s].pc = "free"
          /\ POST_Begin("", b)
    \/ \E s \in Slots : POST_Lookup(s)
    \/ \E s \in Slots, o \in Outcomes : POST_Return(s, o)
    \/ \E t \in CacheInstants : Tick(t)

SpecCache == Init /\ [][NextCache]_vars

(***************************************************************************)
(* The rate-limit scenarios: one body, enough requests to pass the         *)
(* ceiling, a clock that steps around the end of the window                *)
(***************************************************************************)
RateInstants == {60000, 60001}

RateBodies ==
    {b \in BodiesFor(variant) : b.enableCaching = "true" /\ b.message \in {Hi, HiPadded}}

RateOutcomes == {o \in Outcomes : o.kind \in {"ok", "status"} /\ o.text # <<" ">>}

\* the requests a client has sent so far in its window
ReceivedFrom(h, ip) == IF ip \in DOMAIN h THEN h[ip].n ELSE 0

InitRate == Init /\ apiKey

NextRate ==
    \/ \E h \in Headers, b \in RateBodies :
          /\ posts < MaxPostsRate
          /\ h # "" => ReceivedFrom(seen, ClientIp(h)) < MaxPostsOther
          /\ \A s \in Slots : reqs[s].pc = "free"
          /\ POST_Begin(h, b)
    \/ \E s \in Slots : POST_Lookup(s)
    \/ \E s \in Slots, o \in RateOutcomes : POST_Return(s, o)
    \/ \E t \in RateInstants : Tick(t)

SpecRate == InitRate /\ [][NextRate]_vars

(***************************************************************************)
(* The browser page: constants, bounds and inputs                          *)
(***************************************************************************)
\* voiceSettings.retryAttempts
retryAttempts == 3
\* const threshold = 0.01, in units of 0.001
threshold == 10

MaxStarts == 3
MaxBlocks == 2
MaxStopCalls == 2

\* blocks handed to onaudioprocess, a Float32Array each.  Amplitudes are on a
\* scale that keeps their order, 10 standing for 0.01.  No Float32 sample
\* equals 0.01 (the values next to it are 0.00999999977 and 0.0100000007,
\* here 9 and 11), so no block has a sample of 10: all samples below the
\* threshold, one just below and one just above it, one well above it
QuietBlock == <<0, -9>>
EdgeBlock == <<9, -11>>
LoudBlock == <<-20, 3>>
Blocks == {QuietBlock, EdgeBlock, LoudBlock}

\* what the transcriber yields: result.text before trim(), or a thrown error
TranscribeResults ==
    {[ok |-> TRUE, text |-> <<" ", "h", "i">>], [ok |-> TRUE, text |-> <<" ">>],
     [ok |-> FALSE, text |-> <<>>]}

\* how a fetch of /api/chat settles, as callGemini sees it
FetchOutcomes ==
    {[kind |-> "ok", content |-> <<"o", "k">>], [kind |-> "ok", content |-> FallbackText],
     [kind |-> "http429", content |-> <<>>], [kind |-> "http500", content |-> <<>>],
     [kind |-> "neterr", content |-> <<>>]}

NoAudioError == "No audio data captured. Please try again."

(***************************************************************************)
(* AudioRecorder                                                           *)
(***************************************************************************)
Abs(x) == IF x < 0 THEN -x ELSE x

\* inputData.some(sample => Math.abs(sample) > threshold)
HasSignal_FirstSample(block) == Abs(block[1]) > threshold
HasSignal_AnyNonZero(block) == \E i \in DOMAIN block : Abs(block[i]) > 0
HasSignal(block) == \E i \in DOMAIN block : Abs(block[i]) > threshold

\* history: the largest absolute amplitude of the block is below 0.01
BelowThreshold(block) == \A i \in DOMAIN block : Abs(block[i]) < 10

\* the buffer stopRecording returns: the accepted blocks, concatenated
RECURSIVE CombinedAudio(_)
CombinedAudio(chunks) ==
    IF chunks = <<>> THEN <<>> ELSE Head(chunks) \o CombinedAudio(Tail(chunks))

\* onaudioprocess: a block arrives at the connected processor
Audio_Process(block) ==
    /\ processor
    /\ recorderIsRecording
    /\ Len(audioChunks) < MaxBlocks
    /\ audioChunks' = IF HasSignal(block) THEN Append(audioChunks, block) ELSE audioChunks
    /\ sessionChunks' = IF HasSignal(block) THEN Append(sessionChunks, block)
                                            ELSE sessionChunks
    /\ heard' = IF heard = "loud" \/ ~BelowThreshold(block) THEN "loud" ELSE "quiet"
    /\ UNCHANGED <<srvVars, homeVars, calls, clickVars, settingsVars, timeVars, strayGraph,
                   audioStream, audioContext, processor,
                   recorderIsRecording, pendingStarts, leaked, ttsVars, workerVars,
                   inbox, outbox>>

\* the same callback, of a processor that an overlapping startRecording
\* replaced in this.processor: stopRecording never disconnects it, and its
\* closure reads the same this.isRecording and this.audioChunks
Audio_ProcessStray(block) ==
    /\ strayGraph
    /\ recorderIsRecording
    /\ Len(audioChunks) < MaxBlocks
    /\ audioChunks' = IF HasSignal(block) THEN Append(audioChunks, block) ELSE audioChunks
    /\ heard' = IF heard = "loud" \/ ~BelowThreshold(block) THEN "loud" ELSE "quiet"
    /\ UNCHANGED <<srvVars, homeVars, calls, clickVars, settingsVars, timeVars, graphVars,
                   audioStream, audioContext, processor,
                   recorderIsRecording, pendingStarts, leaked, ttsVars, workerVars,
                   inbox, outbox>>

(***************************************************************************)
(* Home: the record button and its two handlers                            *)
(***************************************************************************)
IsSystemReady == whisperStatus = "Ready" /\ ttsStatus = "Ready"

\* disabled={(isProcessing && !isRecording) || !isSystemReady}
ButtonDisabled_IgnoresReady == isProcessing /\ ~isRecording
ButtonDisabled == (isProcessing /\ ~isRecording) \/ ~IsSystemReady

Idle == ~isRecording /\ ~isProcessing

\* Home.startRecording, up to the await of getUserMedia inside
\* AudioRecorder.startRecording
Home_startRecording ==
    /\ isRecording' = TRUE
    /\ isProcessing' = TRUE
    /\ transcript' = <<>>
    /\ response' = <<>>
    /\ error' = ""
    /\ latencyTotal' = FALSE
    /\ pendingStarts' = pendingStarts + 1
    /\ starts' = starts + 1
    /\ stopped' = FALSE
    /\ sttStartTime' = clock
    /\ latencyStt' = -1
    /\ UNCHANGED <<srvVars, whisperStatus, ttsStatus, retryCount, performanceHistory,
                   calls, stopCalls, settingsVars, clock, stopTime, graphVars, audioStream, audioContext,
                   processor, recorderIsRecording, audioChunks, leaked, heard, ttsVars,
                   workerVars, inbox, outbox>>

\* if (isRecording && audioRecorder.current)
StopGuard_Always == TRUE
StopGuard == isRecording

\* Home.stopRecording, with AudioRecorder.stopRecording inside it; stopCalls
\* is left to the caller
Home_stopRecording ==
    LET audioData == CombinedAudio(audioChunks)
    IN  IF StopGuard
        THEN /\ isRecording' = FALSE
             /\ recorderIsRecording' = FALSE
             /\ processor' = FALSE
             /\ audioContext' = FALSE
             /\ audioStream' = FALSE
             /\ audioChunks' = <<>>
             /\ sessionChunks' = <<>>
             /\ stopped' = TRUE
             /\ stopTime' = clock
             /\ heard' = IF recorderIsRecording THEN heard ELSE "none"
             /\ IF Len(audioData) = 0
                THEN /\ error' = NoAudioError
                     /\ isProcessing' = FALSE
                     /\ UNCHANGED <<inbox, posted>>
                ELSE /\ inbox' = Append(inbox, [type |-> "transcribe", audioData |-> audioData])
                     /\ posted' = posted + 1
                     /\ UNCHANGED <<error, isProcessing>>
             /\ UNCHANGED <<srvVars, whisperStatus, ttsStatus, transcript, response, statVars,
                            calls, starts, settingsVars, clock, sttStartTime, latencyStt, strayGraph,
                            pendingStarts, leaked, ttsVars, outbox,
                            workerIsInitialized, workerLoads, pipelineLoads, transcriberCalls>>
        ELSE UNCHANGED <<srvVars, homeVars, calls, starts, stopped, settingsVars, timeVars, graphVars, recVars, ttsVars,
                         workerVars, inbox, outbox>>

\* onClick={isRecording ? stopRecording : startRecording}
Click_Start ==
    /\ ~ButtonDisabled
    /\ ~isRecording
    /\ starts < MaxStarts
    /\ Home_startRecording

Click_Stop ==
    /\ ~ButtonDisabled
    /\ isRecording
    /\ Home_stopRecording
    /\ UNCHANGED stopCalls

\* stopRecording invoked although nothing is being recorded
Call_Stop ==
    /\ ~isRecording
    /\ stopCalls < MaxStopCalls
    /\ stopCalls' = stopCalls + 1
    /\ Home_stopRecording

\* getUserMedia resolves: the rest of AudioRecorder.startRecording runs, and
\* then what follows the await in Home.startRecording.  `graph` says how far
\* the construction of the audio graph gets before it throws, if it does.
GraphResults == {"ok", "contextThrows", "sourceThrows"}

Gum_Resolves(graph) ==
    /\ pendingStarts > 0
    /\ pendingStarts' = pendingStarts - 1
    /\ leaked' = IF audioStream THEN leaked + 1 ELSE leaked
    /\ audioStream' = TRUE
    /\ audioContext' = (audioContext \/ graph # "contextThrows")
    /\ IF graph = "ok"
       THEN /\ processor' = TRUE
            /\ recorderIsRecording' = TRUE
            /\ heard' = IF recorderIsRecording THEN heard ELSE "none"
            /\ strayGraph' = (strayGraph \/ processor)
            /\ sessionChunks' = <<>>
            /\ UNCHANGED <<isRecording, isProcessing, error>>
       ELSE /\ error' = "Failed to start recording"
            /\ isRecording' = FALSE
            /\ isProcessing' = FALSE
            /\ UNCHANGED <<processor, recorderIsRecording, heard, graphVars>>
    /\ UNCHANGED <<srvVars, whisperStatus, ttsStatus, transcript, response, statVars,
                   calls, clickVars, settingsVars, timeVars, audioChunks, ttsVars, workerVars, inbox, outbox>>

\* getUserMedia rejects: the catch of AudioRecorder.startRecording rethrows,
\* the catch of Home.startRecording ends the cycle
Gum_Rejects ==
    /\ pendingStarts > 0
    /\ pendingStarts' = pendingStarts - 1
    /\ error' = "Failed to start recording"
    /\ isRecording' = FALSE
    /\ isProcessing' = FALSE
    /\ UNCHANGED <<srvVars, whisperStatus, ttsStatus, transcript, response, statVars,
                   calls, clickVars, settingsVars, timeVars, graphVars,
                   audioStream, audioContext, processor, recorderIsRecording, audioChunks,
                   leaked, heard, ttsVars, workerVars, inbox, outbox>>

(***************************************************************************)
(* whisperWorker.ts: self.onmessage                                        *)
(***************************************************************************)
Msg(type, text) == [type |-> type, text |-> text]

\* case 'init', up to the await of pipeline()
Worker_Init ==
    /\ inbox # <<>>
    /\ Head(inbox).type = "init"
    /\ inbox' = Tail(inbox)
    /\ IF workerIsInitialized
       THEN /\ outbox' = Append(outbox, Msg("ready", <<>>))
            /\ UNCHANGED <<workerLoads, pipelineLoads>>
       ELSE /\ outbox' = Append(outbox, Msg("loading", <<>>))
            /\ workerLoads' = workerLoads + 1
            /\ pipelineLoads' = pipelineLoads + 1
    /\ UNCHANGED <<srvVars, homeVars, calls, clickVars, settingsVars, timeVars, graphVars, recVars, ttsVars, workerIsInitialized,
                   transcriberCalls, posted>>

\* pipeline() settles: the model is loaded, or the load has failed
Worker_LoadSettles(ok) ==
    /\ workerLoads > 0
    /\ workerLoads' = workerLoads - 1
    /\ workerIsInitialized' = (workerIsInitialized \/ ok)
    /\ outbox' = Append(outbox, IF ok THEN Msg("ready", <<>>) ELSE Msg("error", <<>>))
    /\ UNCHANGED <<srvVars, homeVars, calls, clickVars, settingsVars, timeVars, graphVars, recVars, ttsVars, inbox,
                   pipelineLoads, transcriberCalls, posted>>

\* case 'transcribe': the two guards, each with its return
TranscriberInvoked_Unguarded(ready, audioData) == TRUE
TranscriberInvoked(ready, audioData) == ready /\ Len(audioData) # 0

\* case 'transcribe': the messages posted for one message received, in order;
\* result.ok false is the transcriber throwing; result?.text?.trim() || ''
TranscribeReplies_NoReturn(ready, audioData, result) ==
    (IF ~ready THEN <<Msg("error", <<>>)>> ELSE <<>>)
    \o (IF Len(audioData) = 0 THEN <<Msg("error", <<>>)>> ELSE <<>>)
    \o (IF result.ok THEN <<Msg("transcript", Trim(result.text))>> ELSE <<Msg("error", <<>>)>>)
TranscribeReplies(ready, audioData, result) ==
    IF ~ready THEN <<Msg("error", <<>>)>>
    ELSE IF Len(audioData) = 0 THEN <<Msg("error", <<>>)>>
    ELSE IF result.ok THEN <<Msg("transcript", Trim(result.text))>>
    ELSE <<Msg("error", <<>>)>>

Worker_Transcribe(result) ==
    LET audioData == Head(inbox).audioData
    IN  /\ inbox # <<>>
        /\ Head(inbox).type = "transcribe"
        /\ inbox' = Tail(inbox)
        /\ transcriberCalls' = IF TranscriberInvoked(workerIsInitialized, audioData)
                               THEN transcriberCalls + 1 ELSE transcriberCalls
        /\ outbox' = outbox \o TranscribeReplies(workerIsInitialized, audioData, result)
        /\ UNCHANGED <<srvVars, homeVars, calls, clickVars, settingsVars, timeVars, graphVars, recVars, ttsVars,
                       workerIsInitialized, workerLoads, pipelineLoads, posted>>

(***************************************************************************)
(* Home: whisperWorker.onmessage and handleTranscriptComplete              *)
(***************************************************************************)
\* a handleTranscriptComplete invocation: where it stands, the attempt number
\* of callGemini, and the delays of the timers callGemini has set (history)
\* enableCaching is the field of the request body; ttsRate and ttsVolume are
\* the arguments of speak(), 0 until it is called.  Promise.all starts
\* callGemini and prepare() together: prepared says that prepare() has
\* resolved, which it does at once when the engine isReady().
NewCall_SpeaksAtOnce ==
    [pc |-> "speak", attempt |-> 1, waits |-> <<>>, prepared |-> ttsIsInitialized,
     enableCaching |-> handlerSettings.enableCaching, ttsRate |-> 0, ttsVolume |-> 0]
NewCall ==
    [pc |-> "fetch", attempt |-> 1, waits |-> <<>>, prepared |-> ttsIsInitialized,
     enableCaching |-> handlerSettings.enableCaching, ttsRate |-> 0, ttsVolume |-> 0]

RemoveAt(q, i) == SubSeq(q, 1, i - 1) \o SubSeq(q, i + 1, Len(q))

Home_OnMessage ==
    LET m == Head(outbox)
    IN  /\ outbox # <<>>
        /\ outbox' = Tail(outbox)
        /\ CASE m.type = "ready" ->
                  /\ whisperStatus' = "Ready"
                  /\ UNCHANGED <<isProcessing, error, transcript, calls, retryCount, latencyStt>>
             [] m.type = "loading" ->
                  /\ whisperStatus' = "Loading speech recognition..."
                  /\ UNCHANGED <<isProcessing, error, transcript, calls, retryCount, latencyStt>>
             [] m.type = "transcript" ->
                  IF m.text # <<>>
                  THEN /\ transcript' = m.text
                       /\ latencyStt' = clock - sttStartTime
                       /\ error' = ""
                       /\ retryCount' = 0
                       /\ calls' = Append(calls, NewCall)
                       /\ UNCHANGED <<isProcessing, whisperStatus>>
                  ELSE UNCHANGED <<isProcessing, error, transcript, calls, whisperStatus,
                                   retryCount, latencyStt>>
             [] OTHER ->
                  /\ error' = "Speech recognition error"
                  /\ isProcessing' = FALSE
                  /\ whisperStatus' = "Error"
                  /\ UNCHANGED <<transcript, calls, retryCount, latencyStt>>
        /\ UNCHANGED <<srvVars, isRecording, ttsStatus, response, latencyTotal,
                       performanceHistory, clickVars, settingsVars, clock, sttStartTime, stopTime, graphVars,
                       recVars, ttsVars, workerVars, inbox>>

\* attempt < voiceSettings.retryAttempts
ShouldRetry(attempt) == attempt < retryAttempts

\* setTimeout(resolve, 1000 * attempt)
BackoffDelay_Constant(attempt) == 1000
BackoffDelay(attempt) == 1000 * attempt

\* errorData.error || `Server error: ${response.status}`, or the message of
\* the error fetch() rejected with
ErrorMessage(o) ==
    CASE o.kind = "http429" -> "Rate limit exceeded. Please try again later."
      [] o.kind = "http500" -> "Gemini API error"
      [] OTHER -> "Failed to fetch"

\* the fetch of callGemini settles, for the i-th invocation in progress
Gemini_Settles(i, o) ==
    LET c == calls[i]
    IN  /\ c.pc = "fetch"
        /\ IF o.kind = "ok"
           THEN /\ c.prepared
                /\ response' = o.content
                /\ IF ttsIsInitialized
                   THEN /\ calls' = [calls EXCEPT ![i].pc = "speak",
                                                  ![i].ttsRate = handlerSettings.ttsRate,
                                                  ![i].ttsVolume = handlerSettings.ttsVolume]
                        /\ UNCHANGED <<error, isProcessing, latencyTotal>>
                   ELSE /\ calls' = RemoveAt(calls, i)
                        /\ error' = "TTS failed: TTS not ready"
                        /\ latencyTotal' = TRUE
                        /\ isProcessing' = FALSE
                /\ UNCHANGED retryCount
           ELSE IF ShouldRetry(c.attempt)
           THEN /\ calls' = [calls EXCEPT ![i].pc = "wait",
                                          ![i].waits = Append(@, BackoffDelay(c.attempt))]
                /\ UNCHANGED <<response, error, isProcessing, latencyTotal, retryCount>>
           ELSE /\ calls' = RemoveAt(calls, i)
                /\ error' = ErrorMessage(o)
                /\ retryCount' = retryCount + 1
                /\ isProcessing' = FALSE
                /\ UNCHANGED <<response, latencyTotal>>
        /\ UNCHANGED <<srvVars, isRecording, whisperStatus, ttsStatus, transcript,
                       performanceHistory, clickVars, settingsVars, timeVars, graphVars, recVars, ttsVars, workerVars, inbox,
                       outbox>>

\* the retry timer fires: callGemini(message, attempt + 1)
Gemini_TimerFires(i) ==
    /\ calls[i].pc = "wait"
    /\ calls' = [calls EXCEPT ![i].pc = "fetch", ![i].attempt = @ + 1,
                              ![i].enableCaching = handlerSettings.enableCaching]
    /\ UNCHANGED <<srvVars, homeVars, clickVars, settingsVars, timeVars, graphVars, recVars, ttsVars, workerVars, inbox, outbox>>

\* totalTime = Date.now() - startTime.current: two values stand for all
Totals == {1, 2}

\* [...prev.slice(-9), totalTime]
LastN_FromFront(q, n) == IF Len(q) <= n THEN q ELSE SubSeq(q, 1, n)
LastN(q, n) == IF Len(q) <= n THEN q ELSE SubSeq(q, Len(q) - n + 1, Len(q))

\* catch (ttsError): setError(`TTS failed: ${ttsError.message}`)
SpeechError_Silent(ok, err) == err
SpeechError(ok, err) == IF ok THEN err ELSE "TTS failed"

\* utterance.onend or utterance.onerror
Speech_Settles(i, ok) ==
    /\ calls[i].pc = "speak"
    /\ calls' = RemoveAt(calls, i)
    /\ isProcessing' = FALSE
    /\ latencyTotal' = TRUE
    /\ error' = SpeechError(ok, error)
    /\ \E totalTime \in Totals :
          performanceHistory' = IF ok THEN Append(LastN(performanceHistory, 9), totalTime)
                                ELSE performanceHistory
    /\ UNCHANGED <<srvVars, isRecording, whisperStatus, ttsStatus, transcript, response,
                   retryCount, clickVars, settingsVars, timeVars, graphVars, recVars, ttsVars, workerVars, inbox, outbox>>

(***************************************************************************)
(* SettingsPanel: onSettingsChange={setVoiceSettings}, and resetSettings.  *)
(* The render that follows makes new closures; the handler registered on   *)
(* the worker by the mount effect is not replaced.                         *)
(***************************************************************************)
Settings_Change(s) ==
    /\ s # voiceSettings
    /\ \/ s.ttsRate = voiceSettings.ttsRate /\ s.ttsVolume = voiceSettings.ttsVolume
       \/ s.enableCaching = voiceSettings.enableCaching /\ s.ttsVolume = voiceSettings.ttsVolume
       \/ s.enableCaching = voiceSettings.enableCaching /\ s.ttsRate = voiceSettings.ttsRate
    /\ voiceSettings' = s
    /\ UNCHANGED <<srvVars, homeVars, calls, clickVars, handlerSettings, timeVars, graphVars, recVars, ttsVars,
                   workerVars, inbox, outbox>>

Home_resetSettings ==
    /\ voiceSettings # DefaultSettings
    /\ voiceSettings' = DefaultSettings
    /\ UNCHANGED <<srvVars, homeVars, calls, clickVars, handlerSettings, timeVars, graphVars, recVars, ttsVars,
                   workerVars, inbox, outbox>>

(***************************************************************************)
(* TextToSpeech.loadVoices and the timer that sets ttsStatus               *)
(***************************************************************************)
Tts_VoicesLoaded ==
    /\ ~ttsIsInitialized
    /\ ttsIsInitialized' = TRUE
    /\ UNCHANGED <<srvVars, homeVars, calls, clickVars, settingsVars, timeVars, graphVars, recVars, ttsTimerFired, workerVars,
                   inbox, outbox>>

Home_TtsTimer ==
    /\ ~ttsTimerFired
    /\ ttsTimerFired' = TRUE
    /\ ttsStatus' = IF ttsIsInitialized THEN "Ready" ELSE "Loading..."
    /\ UNCHANGED <<srvVars, isRecording, isProcessing, error, whisperStatus, transcript,
                   response, statVars, calls, clickVars, settingsVars, timeVars, graphVars, recVars, ttsIsInitialized, workerVars,
                   inbox, outbox>>

(***************************************************************************)
(* The page specification.  The endpoint is seen through FetchOutcomes.    *)
(* Every step but the click that starts a recording is taken if it stays   *)
(* possible: the user stops, the prompt, the worker, the endpoint and the  *)
(* speech engine answer.                                                   *)
(***************************************************************************)
InitPage == Init /\ variant = "locale" /\ apiKey

MicSettles == (\E graph \in GraphResults : Gum_Resolves(graph)) \/ Gum_Rejects

WorkerSteps ==
    \/ Worker_Init
    \/ \E ok \in BOOLEAN : Worker_LoadSettles(ok)
    \/ \E result \in TranscribeResults : Worker_Transcribe(result)

EndpointAnswers == \E i \in 1..Len(calls), o \in FetchOutcomes : Gemini_Settles(i, o)

TimerFires == \E i \in 1..Len(calls) : Gemini_TimerFires(i)

SpeechEnds == \E i \in 1..Len(calls), ok \in BOOLEAN : Speech_Settles(i, ok)

NextPage ==
    \/ Click_Start
    \/ Click_Stop
    \/ \E graph \in GraphResults : Gum_Resolves(graph)
    \/ Gum_Rejects
    \/ \E block \in Blocks : Audio_Process(block)
    \/ \E block \in Blocks : Audio_ProcessStray(block)
    \/ Worker_Init
    \/ \E ok \in BOOLEAN : Worker_LoadSettles(ok)
    \/ \E result \in TranscribeResults : Worker_Transcribe(result)
    \/ Home_OnMessage
    \/ \E i \in 1..Len(calls), o \in FetchOutcomes : Gemini_Settles(i, o)
    \/ \E i \in 1..Len(calls) : Gemini_TimerFires(i)
    \/ \E i \in 1..Len(calls), ok \in BOOLEAN : Speech_Settles(i, ok)
    \/ Tts_VoicesLoaded
    \/ Home_TtsTimer
    \/ \E s \in SettingsValues : Settings_Change(s)
    \/ Home_resetSettings

SpecPage ==
    /\ InitPage
    /\ [][NextPage]_vars
    /\ WF_vars(Click_Stop)
    /\ WF_vars(MicSettles)
    /\ WF_vars(WorkerSteps)
    /\ WF_vars(Home_OnMessage)
    /\ WF_vars(EndpointAnswers)
    /\ WF_vars(TimerFires)
    /\ WF_vars(SpeechEnds)
    /\ WF_vars(Tts_VoicesLoaded)
    /\ WF_vars(Home_TtsTimer)

(***************************************************************************)
(* Requests in flight together: a POST may arrive while another awaits its *)
(* body or its upstream answer                                             *)
(***************************************************************************)
MaxPostsConcurrent == 3

NextConcurrent ==
    \/ \E b \in RateBodies :
          /\ posts < MaxPostsConcurrent
          /\ POST_Begin("", b)
    \/ \E s \in Slots : POST_Lookup(s)
    \/ \E s \in Slots, o \in Outcomes : POST_Return(s, o)
    \/ Tick(UPSTREAM_TIMEOUT)

SpecConcurrent == Init /\ [][NextConcurrent]_vars

(***************************************************************************)
(* The page, with stopRecording also invoked while nothing is recorded     *)
(***************************************************************************)
NextHandlers ==
    \/ Click_Start
    \/ Click_Stop
    \/ Call_Stop
    \/ \E graph \in GraphResults : Gum_Resolves(graph)
    \/ Gum_Rejects
    \/ \E block \in Blocks : Audio_Process(block)
    \/ \E block \in Blocks : Audio_ProcessStray(block)
    \/ Worker_Init
    \/ \E ok \in BOOLEAN : Worker_LoadSettles(ok)
    \/ \E result \in TranscribeResults : Worker_Transcribe(result)
    \/ Home_OnMessage
    \/ \E i \in 1..Len(calls), o \in FetchOutcomes : Gemini_Settles(i, o)
    \/ \E i \in 1..Len(calls) : Gemini_TimerFires(i)
    \/ \E i \in 1..Len(calls), ok \in BOOLEAN : Speech_Settles(i, ok)
    \/ Tts_VoicesLoaded
    \/ Home_TtsTimer
    \/ \E s \in SettingsValues : Settings_Change(s)
    \/ Home_resetSettings

SpecHandlers == InitPage /\ [][NextHandlers]_vars

(***************************************************************************)
(* Many cycles that all succeed: the user speaks before stopping, the      *)
(* transcription, the request and the utterance succeed                    *)
(***************************************************************************)
MaxCycles == 11

NextHistory ==
    \/ /\ starts < MaxCycles
       /\ ~ButtonDisabled
       /\ ~isRecording
       /\ Home_startRecording
    \/ Gum_Resolves("ok")
    \/ Audio_Process(LoudBlock)
    \/ audioChunks # <<>> /\ Click_Stop
    \/ Worker_Init
    \/ Worker_LoadSettles(TRUE)
    \/ Worker_Transcribe([ok |-> TRUE, text |-> <<" ", "h", "i">>])
    \/ Home_OnMessage
    \/ \E i \in 1..Len(calls) : Gemini_Settles(i, [kind |-> "ok", content |-> <<"o", "k">>])
    \/ \E i \in 1..Len(calls) : Speech_Settles(i, TRUE)
    \/ Tts_VoicesLoaded
    \/ Home_TtsTimer

SpecHistory == InitPage /\ [][NextHistory]_vars

(***************************************************************************)
(* One cycle that succeeds, with the browser clock advancing               *)
(***************************************************************************)
MaxClock == 3

Clock_Tick ==
    /\ clock < MaxClock
    /\ clock' = clock + 1
    /\ UNCHANGED <<srvVars, homeVars, calls, clickVars, settingsVars, graphVars, sttStartTime, latencyStt,
                   stopTime, recVars, ttsVars, workerVars, inbox, outbox>>

NextLatency ==
    \/ Click_Start
    \/ Gum_Resolves("ok")
    \/ Audio_Process(LoudBlock)
    \/ audioChunks # <<>> /\ Click_Stop
    \/ Worker_Init
    \/ Worker_LoadSettles(TRUE)
    \/ Worker_Transcribe([ok |-> TRUE, text |-> <<" ", "h", "i">>])
    \/ Home_OnMessage
    \/ \E i \in 1..Len(calls) : Gemini_Settles(i, [kind |-> "ok", content |-> <<"o", "k">>])
    \/ \E i \in 1..Len(calls) : Speech_Settles(i, TRUE)
    \/ Tts_VoicesLoaded
    \/ Home_TtsTimer
    \/ Clock_Tick

SpecLatency == InitPage /\ [][NextLatency]_vars

(***************************************************************************)
(* The worker on its own: its caller posts init and transcribe messages in *)
(* any order, with or without audio                                        *)
(***************************************************************************)
MaxMessages == 4

AudioInputs == {<<>>, LoudBlock}

\* whisperWorker.current.postMessage({ type: 'init' })
Post_Init ==
    /\ posted < MaxMessages
    /\ posted' = posted + 1
    /\ inbox' = Append(inbox, [type |-> "init", audioData |-> <<>>])
    /\ UNCHANGED <<srvVars, homeVars, calls, clickVars, settingsVars, timeVars, graphVars, recVars, ttsVars, outbox,
                   workerIsInitialized, workerLoads, pipelineLoads, transcriberCalls>>

\* whisperWorker.current.postMessage({ type: 'transcribe', audioData })
Post_Transcribe(audioData) ==
    /\ posted < MaxMessages
    /\ posted' = posted + 1
    /\ inbox' = Append(inbox, [type |-> "transcribe", audioData |-> audioData])
    /\ UNCHANGED <<srvVars, homeVars, calls, clickVars, settingsVars, timeVars, graphVars, recVars, ttsVars, outbox,
                   workerIsInitialized, workerLoads, pipelineLoads, transcriberCalls>>

NextWorker ==
    \/ Post_Init
    \/ \E audioData \in AudioInputs : Post_Transcribe(audioData)
    \/ Worker_Init
    \/ \E ok \in BOOLEAN : Worker_LoadSettles(ok)
    \/ \E result \in TranscribeResults : Worker_Transcribe(result)

SpecWorker == InitPage /\ [][NextWorker]_vars

(***************************************************************************)
(* Claims about the completion endpoint                                    *)
(***************************************************************************)
Min(a, b) == IF a < b THEN a ELSE b

SecondFromFirst ==
    /\ lastDone.status = 200
    /\ lastDone.via = "cache"
    /\ ~lastDone.fetched
    /\ lastDone.content = lastDone.predContent

\* C4, as stated: a POST that directly follows a POST of the same message
\* answered 200 from upstream (caching on in both), and arrives while the
\* entry is younger than the time-to-live, is answered without a fetch of its
\* own, with the content of the first.
C4_SecondServedFromCache ==
    (lastDone.follows = "same" /\ lastDone.entry = "under") => SecondFromFirst

\* C4, amended: the same, for a second POST that the rate-limit gate lets
\* through (a second POST over the ceiling is answered 429, without content).
C4_SecondServedFromCacheIfAdmitted ==
    (lastDone.follows = "same" /\ lastDone.entry = "under" /\ lastDone.status # 429)
        => SecondFromFirst

C4_Witness ==
    /\ ev = "lookup"
    /\ lastDone.follows = "same"
    /\ lastDone.entry = "under"
    /\ SecondFromFirst
    /\ lastDone.content # <<>>

\* C5: no response comes from a cache entry older than CACHE_DURATION; a
\* request that finds such an entry is answered through the upstream fetch
\* path and, when that succeeds with caching on, leaves the entry holding the
\* new content and the current time.
C5_ExpiredEntryNeverReturned ==
    /\ lastDone.via = "cache" => lastDone.entry \in {"under", "exact"}
    /\ (lastDone.entry = "over" /\ lastDone.body.ok /\ apiKey /\ lastDone.status # 429)
          => lastDone.fetched
    /\ (ev = "return" /\ lastDone.entry = "over" /\ lastDone.status = 200
            /\ EnableCachingOf(lastDone.body))
          => /\ KeyOf(lastDone.body) \in DOMAIN responseCache
             /\ responseCache[KeyOf(lastDone.body)] =
                   [content |-> lastDone.content, timestamp |-> now]

C5_Witness ==
    /\ ev = "return"
    /\ lastDone.entry = "over"
    /\ lastDone.status = 200
    /\ EnableCachingOf(lastDone.body)
    /\ responseCache[KeyOf(lastDone.body)].timestamp = now

SameKeyWhenNormalisedEqual ==
    \A m \in Messages :
        Normalised(m) = Normalised(lastDone.body.message)
            => KeyOf([lastDone.body EXCEPT !.message = m]) = KeyOf(lastDone.body)

\* C6, as stated: messages equal after lower-casing and trimming (same
\* language) have the same cache key, and the second of two such POSTs, with
\* caching on and the first's entry still alive, is answered from that entry
\* without an upstream call.
C6_NormalisedMessagesShareEntry ==
    /\ SameKeyWhenNormalisedEqual
    /\ (lastDone.follows \in {"same", "norm"} /\ lastDone.entry = "under") => SecondFromFirst

\* C6, amended: the same, for a second POST that the rate-limit gate lets
\* through.
C6_NormalisedMessagesShareEntryIfAdmitted ==
    /\ SameKeyWhenNormalisedEqual
    /\ (lastDone.follows \in {"same", "norm"} /\ lastDone.entry = "under"
            /\ lastDone.status # 429) => SecondFromFirst

C6_Witness ==
    /\ ev = "lookup"
    /\ lastDone.follows = "norm"
    /\ lastDone.entry = "under"
    /\ SecondFromFirst

\* C7: per client identifier, in the part_000 handler: of the requests of one
\* window (opened by the first request, or by the first request made more
\* than 60000 ms after the window's start) exactly the first 30 pass the gate
\* and the others are answered 429; the limiter's count is the number passed,
\* so the request that opens a window leaves it at 1.
C7_ThirtyPerWindow ==
    /\ \A ip \in DOMAIN seen :
          /\ seen[ip].passed = Min(seen[ip].n, 30)
          /\ ip \in DOMAIN rateLimitMap
          /\ rateLimitMap[ip].count = Min(seen[ip].n, 30)
          /\ rateLimitMap[ip].timestamp = seen[ip].start
    /\ ev = "reject" => /\ lastDone.status = 429
                        /\ lastDone.ip \in DOMAIN seen
                        /\ seen[lastDone.ip].n > 30

C7_Witness ==
    /\ ev = "reject"
    /\ now = 60000
    /\ seen[lastDone.ip].start = 0
    /\ seen[lastDone.ip].n = 31

\* C8: in the handler that has the gate (part_000; route.ts has no ceiling),
\* per client identifier at most 30 requests of a window get past the gate,
\* and so to the upstream fetch; the step that rejects a request issues
\* no fetch, starts no handler work and leaves the response cache as it was,
\* and its 429 response carries no content.
C8_RejectedNeverReachesUpstream ==
    [][/\ \A ip \in DOMAIN seen' : seen'[ip].passed <= 30
       /\ ev' = "reject" => /\ ~lastDone'.fetched
                            /\ lastDone'.via = "ratelimit"
                            /\ lastDone'.content = <<>>
                            /\ UNCHANGED <<responseCache, reqs>>]_vars

C8_Witness ==
    /\ ev = "reject"
    /\ lastDone.entry = "under"
    /\ \E ip \in DOMAIN seen : seen[ip].n > 30

(***************************************************************************)
(* Claims about the page                                                   *)
(***************************************************************************)
\* C1: Home.startRecording runs only when the coordinator is Idle: neither
\* isRecording nor isProcessing is set and no earlier startRecording is still
\* awaiting the microphone.
C1_StartOnlyWhenIdle ==
    [][Home_startRecording => (Idle /\ pendingStarts = 0)]_vars

\* C2: every cycle that has left Idle returns to Idle, whatever the worker,
\* the endpoint and the speech engine answer.
C2_EveryCycleReturnsToIdle == (~Idle) ~> Idle

\* C3: whenever the coordinator is not recording, the AudioRecorder holds no
\* open stream, AudioContext or processor.
C3_ReleasedWhenNotRecording ==
    ~isRecording => (~audioStream /\ ~audioContext /\ ~processor)

\* C9: when Home.stopRecording ends a recording all of whose blocks were below
\* the threshold, the buffer it gets is empty, it sets the 'no audio' error,
\* ends the cycle and posts nothing to the worker.
C9_SilenceEndsCycle ==
    [][(Home_stopRecording /\ heard # "loud")
          => /\ Len(CombinedAudio(audioChunks)) = 0
             /\ error' = NoAudioError
             /\ ~isRecording'
             /\ ~isProcessing'
             /\ inbox' = inbox]_vars

C9_Witness ==
    /\ heard = "quiet"
    /\ ~recorderIsRecording
    /\ error = NoAudioError
    /\ Idle
    /\ inbox = <<>>

RECURSIVE SumSeq(_)
SumSeq(q) == IF q = <<>> THEN 0 ELSE Head(q) + SumSeq(Tail(q))

\* C10: when a fetch of callGemini settles after k failures, the timers set so
\* far were of 1000*1 .. 1000*k ms; a success then makes callGemini return its
\* content, and a failure that leaves the failures below retryAttempts is
\* followed by a further attempt, after 1000*(k+1) ms.
C10_RetryThenSuccess ==
    [][\A i \in 1..Len(calls), o \in FetchOutcomes :
          Gemini_Settles(i, o) =>
             LET c == calls[i]
                 k == c.attempt - 1
             IN  /\ c.waits = [j \in 1..k |-> 1000 * j]
                 /\ o.kind = "ok" => /\ response' = o.content
                                     /\ SumSeq(c.waits) >= 500 * k * (k + 1)
                 /\ (o.kind # "ok" /\ k + 1 < retryAttempts)
                       => /\ Len(calls') = Len(calls)
                          /\ calls'[i].pc = "wait"
                          /\ calls'[i].waits = Append(c.waits, 1000 * (k + 1))]_vars

C10_Witness ==
    \E i \in 1..Len(calls) :
        /\ calls[i].pc = "speak"
        /\ calls[i].waits = <<1000, 2000>>
        /\ response = <<"o", "k">>

\* C11: when a fetch of callGemini fails, a retry follows, after 1000*i ms
\* when it was attempt i, as long as fewer than retryAttempts retries have been
\* made; after retryAttempts retries callGemini gives up, and the error set is
\* the message of that last failure.
C11_RetriesThenThrows ==
    [][\A i \in 1..Len(calls), o \in FetchOutcomes :
          (Gemini_Settles(i, o) /\ o.kind # "ok") =>
             LET c == calls[i]
                 retries == c.attempt - 1
             IN  IF retries < retryAttempts
                 THEN /\ Len(calls') = Len(calls)
                      /\ calls'[i].pc = "wait"
                      /\ calls'[i].waits = Append(c.waits, 1000 * c.attempt)
                 ELSE /\ Len(calls') = Len(calls) - 1
                      /\ error' = ErrorMessage(o)]_vars

\* C12: a 429 answer ends callGemini at once, with its message as the error
\* and no further request; a 500 answer or a network failure is retried while
\* attempts are left.
C12_RateLimitNotRetried ==
    [][\A i \in 1..Len(calls), o \in FetchOutcomes :
          Gemini_Settles(i, o) =>
             /\ o.kind = "http429" => /\ Len(calls') = Len(calls) - 1
                                      /\ error' = ErrorMessage(o)
                                      /\ ~isProcessing'
             /\ (o.kind \in {"http500", "neterr"} /\ calls[i].attempt < retryAttempts)
                   => /\ Len(calls') = Len(calls)
                      /\ calls'[i].pc = "wait"]_vars

\* C13: a recording is active, or a start is awaiting the microphone, only
\* when the worker's model is initialized and the speech unit is ready, and
\* Home.startRecording runs only with both statuses at Ready.
C13_RecordingOnlyWhenReady ==
    [][/\ (isRecording' \/ recorderIsRecording' \/ pendingStarts' > 0)
             => (workerIsInitialized' /\ ttsIsInitialized')
       /\ Home_startRecording
             => (IsSystemReady /\ workerIsInitialized /\ ttsIsInitialized)]_vars

C13_Witness ==
    /\ isRecording
    /\ recorderIsRecording
    /\ workerIsInitialized
    /\ ttsIsInitialized

C15_SpeakingRecordsTotal ==
    [][\A i \in 1..Len(calls), ok \in BOOLEAN :
          Speech_Settles(i, ok)
             => /\ latencyTotal'
                /\ Len(performanceHistory') = Len(performanceHistory) + 1]_vars

(***************************************************************************)
(* Claims about the transcription worker                                   *)
(***************************************************************************)
\* C16: handling one transcribe message adds exactly one message to what the
\* worker has posted, a transcript or an error, and an error when the
\* transcriber throws.
C16_ExactlyOneReply ==
    [][\A result \in TranscribeResults :
          Worker_Transcribe(result)
             => /\ Len(outbox') = Len(outbox) + 1
                /\ SubSeq(outbox', 1, Len(outbox)) = outbox
                /\ outbox'[Len(outbox')].type \in {"transcript", "error"}
                /\ (transcriberCalls' > transcriberCalls /\ ~result.ok
                       => outbox'[Len(outbox')].type = "error")]_vars

\* the transcriber was invoked once, threw, and the one reply is an error
C16_Witness ==
    /\ workerIsInitialized
    /\ transcriberCalls = 1
    /\ inbox = <<>>
    /\ outbox = <<Msg("loading", <<>>), Msg("ready", <<>>), Msg("error", <<>>)>>

\* C17: whatever init messages the worker receives, it calls pipeline() at
\* most once.
C17_SingleLoad == pipelineLoads <= 1

\* C18: a transcribe message handled before the model is loaded, or carrying
\* no samples (a missing audioData takes the same branch as an empty one), is
\* answered with an error, and the transcriber is not invoked.
C18_GuardedTranscribeFailsFast ==
    [][\A result \in TranscribeResults :
          Worker_Transcribe(result)
             /\ (~workerIsInitialized \/ Len(Head(inbox).audioData) = 0)
             => /\ outbox' = Append(outbox, Msg("error", <<>>))
                /\ transcriberCalls' = transcriberCalls]_vars

\* a transcribe message was handled while the load was still in progress
C18_Witness ==
    /\ ~workerIsInitialized
    /\ workerLoads = 1
    /\ inbox = <<>>
    /\ outbox = <<Msg("loading", <<>>), Msg("error", <<>>)>>
    /\ transcriberCalls = 0

(***************************************************************************)
(* Claims about stopping                                                   *)
(***************************************************************************)
NoSession == ~recorderIsRecording /\ ~processor /\ ~audioContext /\ ~audioStream

\* C19: Home.stopRecording invoked while isRecording is false changes nothing
\* and posts nothing; AudioRecorder.stopRecording invoked while the recorder
\* is not recording returns an empty buffer without throwing (the page shows
\* the no-audio error and posts nothing), and with nothing held it leaves
\* the recorder as it was.
C19_StopWhenNotRecordingIsNoOp ==
    [][/\ Call_Stop
            => UNCHANGED <<srvVars, homeVars, calls, starts, stopped, settingsVars, timeVars, graphVars, recVars, ttsVars,
                           workerVars, inbox, outbox>>
       /\ Click_Stop /\ ~recorderIsRecording
            => error' = NoAudioError /\ inbox' = inbox /\ posted' = posted
       /\ Click_Stop /\ NoSession
            => UNCHANGED <<audioStream, audioContext, processor, recorderIsRecording,
                           audioChunks, leaked>>]_vars

\* the recorder was stopped while getUserMedia was still pending, and
\* Home.stopRecording was then invoked again
C19_Witness ==
    /\ stopCalls = 1
    /\ stopped
    /\ pendingStarts = 1
    /\ NoSession
    /\ ~isRecording
    /\ error = NoAudioError
    /\ inbox = <<>>

\* C20: after AudioRecorder.stopRecording has been called, and until
\* startRecording is called again, no block is appended to audioChunks.
C20_NoBlockAfterStop == [][stopped => Len(audioChunks') <= Len(audioChunks)]_vars

(***************************************************************************)
(* Claims about the voice settings                                         *)
(***************************************************************************)
\* C21: when a completion request is issued its body carries the
\* enableCaching in effect at that moment, and when speak() is called its
\* arguments are the ttsRate and ttsVolume in effect at that moment.
C21_CallsUseCurrentSettings ==
    [][/\ Len(calls') > Len(calls)
            => calls'[Len(calls')].enableCaching = voiceSettings.enableCaching
       /\ \A i \in 1..Len(calls) :
            Gemini_TimerFires(i) => calls'[i].enableCaching = voiceSettings.enableCaching
       /\ \A i \in 1..Len(calls), o \in FetchOutcomes :
            Gemini_Settles(i, o) /\ o.kind = "ok" /\ ttsIsInitialized
               => /\ calls'[i].ttsRate = voiceSettings.ttsRate
                  /\ calls'[i].ttsVolume = voiceSettings.ttsVolume]_vars

(***************************************************************************)
(* More claims about the completion endpoint                               *)
(***************************************************************************)
\* C22: when the upstream fetch succeeds the response is a 200 whose content
\* is not empty: the candidate text trimmed, or the fallback text when there
\* is no candidate text.
C22_SuccessGivesContent ==
    [][\A s \in Slots, o \in Outcomes :
          POST_Return(s, o) /\ o.kind = "ok"
             => /\ lastDone'.status = 200
                /\ lastDone'.content # <<>>
                /\ lastDone'.content
                      = IF o.hasText /\ o.text # <<>> THEN Trim(o.text) ELSE FallbackText]_vars

\* C23: in the handler that sets the deadline (part_000; route.ts sets none),
\* a fetch still unanswered more than 8000 ms after it was issued ends aborted,
\* in a 500 that reports the timeout, and a fetch answered in less than
\* 8000 ms is never reported as timed out.
C23_DeadlineAborts ==
    [][\A s \in Slots, o \in Outcomes :
          POST_Return(s, o) /\ variant = "limited"
             => /\ now - reqs[s].fetchStart > UPSTREAM_TIMEOUT
                     => lastDone'.status = 500 /\ lastDone'.err = "Request timeout"
                /\ now - reqs[s].fetchStart < UPSTREAM_TIMEOUT
                     => lastDone'.err # "Request timeout"]_vars

\* a request has been answered with the timeout error
C23_Witness ==
    /\ variant = "limited"
    /\ lastDone.status = 500
    /\ lastDone.err = "Request timeout"
    /\ lastDone.fetched

(***************************************************************************)
(* Claims about the latency history                                        *)
(***************************************************************************)
\* C24: performanceHistory never holds more than 10 entries, and it changes
\* only by a total being appended at its end, the oldest entry being dropped
\* when it already held 10; in particular starting a cycle leaves it alone.
C24_HistoryKeepsLastTen ==
    [][/\ Len(performanceHistory') <= 10
       /\ \/ performanceHistory' = performanceHistory
          \/ \E totalTime \in Totals :
                performanceHistory'
                   = Append(IF Len(performanceHistory) = 10 THEN Tail(performanceHistory)
                            ELSE performanceHistory, totalTime)]_vars

\* the eleventh cycle has ended: its total was appended to a full history
C24_Witness ==
    /\ starts > 10
    /\ ~isRecording
    /\ ~isProcessing
    /\ Len(performanceHistory) = 10
    /\ performanceHistory[1] = 1
    /\ performanceHistory[10] = 2

(***************************************************************************)
(* Claims about the order of the stages                                    *)
(***************************************************************************)
Speaking(cs) == {i \in 1..Len(cs) : cs[i].pc = "speak"}

\* C25: a transcribe message is posted only by the step that stops the
\* recording; callGemini is started only by the step that takes a transcript
\* message from the worker, together with prepare(); and speak() is started
\* only by the step in which callGemini returns, prepare() having resolved.
C25_StagesInOrder ==
    [][/\ Len(inbox') > Len(inbox)
            => isRecording /\ ~isRecording' /\ inbox'[Len(inbox')].type = "transcribe"
       /\ Len(calls') > Len(calls)
            => /\ outbox # <<>>
               /\ Head(outbox).type = "transcript"
               /\ outbox' = Tail(outbox)
               /\ calls'[Len(calls')].pc = "fetch"
               /\ calls'[Len(calls')].prepared
       /\ Cardinality(Speaking(calls')) > Cardinality(Speaking(calls))
            => \E i \in 1..Len(calls), o \in FetchOutcomes :
                  /\ Gemini_Settles(i, o)
                  /\ o.kind = "ok"
                  /\ calls[i].pc = "fetch"
                  /\ calls[i].prepared
                  /\ response' = o.content]_vars

\* a cycle has reached speak(): stopped, transcribed, answered
C25_Witness ==
    /\ stopped
    /\ transcript = <<"h", "i">>
    /\ response = <<"o", "k">>
    /\ Len(calls) = 1
    /\ calls[1].pc = "speak"
    /\ calls[1].prepared

\* C26: when getUserMedia resolves after Home.stopRecording has been called,
\* and no startRecording since, the recorder is left not recording, with no
\* processor to deliver blocks and no open microphone stream.
C26_StopCancelsPendingStart ==
    [][\A graph \in GraphResults :
          Gum_Resolves(graph) /\ stopped
             => ~recorderIsRecording' /\ ~processor' /\ ~audioStream']_vars

\* C27: a transcribe message is posted only when the worker holds no other
\* transcribe message and no answer to one is still on its way to the page.
C27_OneTranscribeOutstanding ==
    [][Len(inbox') > Len(inbox)
          => /\ inbox = <<>>
             /\ \A k \in 1..Len(outbox) : outbox[k].type \notin {"transcript", "error"}]_vars

\* C28: when the page takes an error message that the worker posted for a
\* transcription, the model being loaded, processing ends and the ready gate
\* of the record button is open.
C28_ReadyAfterTranscribeError ==
    [][(workerIsInitialized /\ outbox # <<>> /\ Head(outbox).type = "error" /\ Home_OnMessage)
          => ~isProcessing' /\ IsSystemReady']_vars

(***************************************************************************)
(* Claims about requests in flight together and about caching switched off *)
(***************************************************************************)
\* C29: of the requests in flight with caching on and one cache key, at most
\* one has an upstream fetch issued.
C29_OneFetchPerKey ==
    \A s, t \in Slots :
       /\ s # t
       /\ reqs[s].pc = "fetch" /\ EnableCachingOf(reqs[s].body)
       /\ reqs[t].pc = "fetch" /\ EnableCachingOf(reqs[t].body)
       => KeyOf(reqs[s].body) # KeyOf(reqs[t].body)

\* C30: a request whose body has enableCaching false, well formed and with
\* the API key configured, has its upstream fetch
\* issued by the lookup step whatever the cache holds, and neither that step
\* nor the step that answers it changes the response cache.
C30_CachingOffBypassesCache ==
    [][\A s \in Slots :
          (reqs[s].body.ok /\ reqs[s].body.enableCaching = "false")
             => /\ POST_Lookup(s) /\ apiKey
                     => reqs'[s].pc = "fetch" /\ responseCache' = responseCache
                /\ \A o \in Outcomes :
                     POST_Return(s, o)
                        => /\ responseCache' = responseCache
                           /\ lastDone'.fetched
                           /\ lastDone'.via # "cache"]_vars

\* a request with caching off was answered from upstream although a fresh
\* entry was held under its key
C30_Witness ==
    /\ variant = "limited"
    /\ lastDone.valid
    /\ lastDone.body.enableCaching = "false"
    /\ lastDone.entry = "under"
    /\ lastDone.via = "upstream"
    /\ lastDone.fetched
    /\ KeyOf(lastDone.body) \in DOMAIN responseCache

C32_ExactAgeStillServed ==
    (/\ lastDone.valid
     /\ lastDone.body.ok
     /\ apiKey
     /\ EnableCachingOf(lastDone.body)
     /\ lastDone.status # 429
     /\ lastDone.entry = "exact")
       => lastDone.via = "cache" /\ ~lastDone.fetched

(***************************************************************************)
(* Claims about the latency figures                                        *)
(***************************************************************************)
\* C33: when the page takes the worker's transcript message, latency.stt is
\* set to the time elapsed since the stop request.
C33_SttMeasuredFromStop ==
    [][Len(calls') > Len(calls) => latencyStt' = clock - stopTime]_vars

\* C34: once the worker is ready and voice discovery has completed, the
\* system-ready gate eventually opens, however late the voices arrived.
C34_GateEventuallyOpens ==
    (whisperStatus = "Ready" /\ ttsIsInitialized) ~> IsSystemReady

\* C35: the buffer AudioRecorder.stopRecording returns is the concatenation,
\* in arrival order and each once, of the blocks the session being stopped
\* has accepted since its startRecording: nothing an earlier session
\* captured and nothing captured twice is in it.
C35_BufferIsSessionBlocks ==
    [][(StopGuard /\ Home_stopRecording)
          => CombinedAudio(audioChunks) = CombinedAudio(sessionChunks)]_vars

\* C36: a request that ends in failure leaves the response cache as it was:
\* no step that answers with an error changes it, and it changes only in the
\* step where the upstream fetch of a request with caching on succeeds, which
\* sets the entry of that request's key to the content sent.
C36_FailureLeavesCacheUnchanged ==
    [][/\ (ev' \in {"reject", "lookup", "return"} /\ lastDone'.status # 200)
             => UNCHANGED responseCache
       /\ responseCache' # responseCache
             => /\ ev' = "return"
                /\ lastDone'.status = 200
                /\ lastDone'.via = "upstream"
                /\ lastDone'.fetched
                /\ EnableCachingOf(lastDone'.body)
                /\ responseCache' = CacheSet(responseCache, KeyOf(lastDone'.body),
                                             lastDone'.content, now)]_vars

\* a fetch with caching on was aborted at the deadline; the cache holds what
\* an earlier request stored and nothing under the failed request's key
C36_Witness ==
    /\ ev = "return"
    /\ lastDone.status = 500
    /\ lastDone.err = "Request timeout"
    /\ EnableCachingOf(lastDone.body)
    /\ responseCache # <<>>
    /\ KeyOf(lastDone.body) \notin DOMAIN responseCache

\* the client has sent 30 or more requests in its current window (history)
OverCeiling(ip) ==
    /\ ip \in DOMAIN seen
    /\ now - seen[ip].start <= 60000
    /\ seen[ip].n >= 30

\* C37: in the handler with the limiter, the rate-limit check comes before
\* the cache lookup.  A request for which a fresh cache entry exists is
\* counted against its client when it arrives, and is answered from the
\* cache with the count left as incremented; when the client is over the
\* ceiling it is answered 429, with no content, fresh entry or not.
C37_RateCheckBeforeCacheLookup ==
    [][/\ \A h \in Headers, b \in RateBodies :
            (/\ variant = "limited"
             /\ POST_Begin(h, b)
             /\ EnableCachingOf(b)
             /\ CacheHit(responseCache, KeyOf(b), now))
               => IF OverCeiling(ClientIp(h))
                  THEN /\ ev' = "reject"
                       /\ lastDone'.status = 429
                       /\ lastDone'.content = <<>>
                       /\ ~lastDone'.fetched
                       /\ UNCHANGED reqs
                  ELSE /\ ev' = "begin"
                       /\ rateLimitMap'[ClientIp(h)].count =
                             IF \/ ClientIp(h) \notin DOMAIN seen
                                \/ now - seen[ClientIp(h)].start > 60000
                             THEN 1
                             ELSE rateLimitMap[ClientIp(h)].count + 1
       /\ \A s \in Slots :
            (variant = "limited" /\ POST_Lookup(s) /\ lastDone'.via = "cache"
                /\ reqs'[s].pc = "free" /\ reqs[s].pc = "body")
               => /\ UNCHANGED rateLimitMap
                  /\ rateLimitMap[reqs[s].ip].count >= 1]_vars

\* the 31st request of a window was answered 429 although a fresh entry
\* existed under its key, after a request had been answered from the cache
C37_Witness ==
    /\ variant = "limited"
    /\ ev = "reject"
    /\ lastDone.status = 429
    /\ lastDone.entry = "under"
    /\ rateLimitMap[lastDone.ip].count = 30
    /\ seen[lastDone.ip].n = 31

\* C38: when the upstream answer holds no candidate text and caching is on,
\* the fallback string is stored under the request's key like a reply, and a
\* later request with that key and caching on, made while the entry is
\* younger than the time-to-live, is answered with the fallback from the
\* cache, no upstream fetch issued.
C38_FallbackIsCached ==
    [][/\ \A s \in Slots, o \in Outcomes :
            (/\ POST_Return(s, o)
             /\ o.kind = "ok"
             /\ ~o.hasText
             /\ EnableCachingOf(reqs[s].body))
               => /\ lastDone'.content = FallbackText
                  /\ KeyOf(reqs[s].body) \in DOMAIN responseCache'
                  /\ responseCache'[KeyOf(reqs[s].body)] =
                        [content |-> FallbackText, timestamp |-> now]
       /\ \A s \in Slots :
            (/\ POST_Lookup(s)
             /\ reqs[s].body.ok
             /\ apiKey
             /\ EnableCachingOf(reqs[s].body)
             /\ KeyOf(reqs[s].body) \in DOMAIN responseCache
             /\ responseCache[KeyOf(reqs[s].body)].content = FallbackText
             /\ now - responseCache[KeyOf(reqs[s].body)].timestamp < CACHE_DURATION)
               => /\ lastDone'.status = 200
                  /\ lastDone'.via = "cache"
                  /\ lastDone'.content = FallbackText
                  /\ ~lastDone'.fetched
                  /\ reqs'[s].pc = "free"
                  /\ UNCHANGED responseCache]_vars

\* the request that followed one answered with the fallback got the
\* fallback from the cache
C38_Witness ==
    /\ ev = "lookup"
    /\ lastDone.via = "cache"
    /\ lastDone.follows # "no"
    /\ lastDone.predContent = FallbackText
    /\ lastDone.content = FallbackText
    /\ ~lastDone.fetched

====
